---- MODULE Spec2Model ----
(***************************************************************************)
(* A model of the progressive ray tracer of RaytracingCornellbox: the      *)
(* shading variants, the render state, the sampling driver                 *)
(* (raytrace_samples), the asynchronous render context (raytrace_start,    *)
(* raytrace_cancel, raytrace_done) of libs/yocto_examples/                 *)
(* yocto_raytrace.cpp, as compiled with YOCTO_LIVE_CODING = 1.             *)
(*                                                                         *)
(* Numbers.  A vec4f is a record [x, w]: x stands for the three colour     *)
(* channels (one integer), w is alpha.  NonFinite is the one non-finite    *)
(* float (inf or nan); it absorbs every sum and product.  A value of       *)
(* rand1f is a level in 0 .. RandRes-1 (the interval [k/RandRes,           *)
(* (k+1)/RandRes)), and an opacity or a Fresnel probability is a number of *)
(* such levels, so that `rand1f(rng) < p` is `level < p`.                  *)
(***************************************************************************)
EXTENDS Integers, Sequences, FiniteSets, TLC

VARIABLES
  scene,      \* the scene_data passed to every call (read-only)
  params,     \* the raytrace_params passed to every call (read-only)
  state,      \* the caller's raytrace_state
  context,    \* the caller's raytrace_context: stop, done, worker
  task,       \* the lambda launched by raytrace_start: its position and pass
  caller,     \* the calling thread: "idle", "cancel" while blocked in
              \* raytrace_cancel, "undefined" once the program has read outside
              \* an array, "crashed" once it has been killed
  error,      \* the exception the caller's last call ended with, or "none"
  lastOp,     \* the step taken last (history)
  passStart,  \* state.samples when the last task was launched (history)
  twin,       \* a second raytrace_state made from the same (scene, params)
  image       \* the caller's color_image, the destination of get_image

vars ==
  <<scene, params, state, context, task, caller, error, lastOp, passStart, twin, image>>

-----------------------------------------------------------------------------
(* Bounds of the model *)

\* beside a context, raytrace_samples is called while state.samples < MaxPasses
MaxPasses == 1
\* side by side, two renders take up to MaxRepeat passes each
MaxRepeat == 2
\* params.samples ranges over 0 .. MaxSamples
MaxSamples == 1
\* params.bounces ranges over 0 .. MaxBounces
MaxBounces == 1
\* the random generator keeps RngBits bits of state
RngBits == 3
\* nested shader calls the model follows before it gives up on a ray
MaxDepth == 6

\* params.resolution ranges over Resolutions
Resolutions == {1, 2}

RngMod == 2 ^ RngBits

\* levels of a rand1f value
RandRes == 2

\* image-plane and direction coordinates are quantised to 0 .. Grid-1
Grid == 2 * RandRes

-----------------------------------------------------------------------------
(* Floats *)

NonFinite == -1

FAdd(a, b) == IF a = NonFinite \/ b = NonFinite THEN NonFinite ELSE a + b

FMul(a, b) == IF a = NonFinite \/ b = NonFinite THEN NonFinite ELSE a * b

Vec4(x, w) == [x |-> x, w |-> w]

zero4f == Vec4(0, 0)

VAdd(a, b) == Vec4(FAdd(a.x, b.x), FAdd(a.w, b.w))

isfinite(v) == v.x # NonFinite /\ v.w # NonFinite

-----------------------------------------------------------------------------
(* Random numbers: yocto's pcg32 with RngBits bits of state *)

\* 6364136223846793005 mod 8: the multiplier on the bits kept
RngMult == 5

advance_rng(rng) ==
  [out |-> rng.state,
   rng |-> [rng EXCEPT !.state = (rng.state * RngMult + rng.inc) % RngMod]]

make_rng(seed, seq) ==
  LET r0 == [state |-> 0, inc |-> (2 * seq + 1) % RngMod]
      r1 == advance_rng(r0).rng
      r2 == [r1 EXCEPT !.state = (r1.state + seed) % RngMod]
  IN  advance_rng(r2).rng

\* a uniform integer in 0 .. n-1
rand1i(rng, n) ==
  LET a == advance_rng(rng) IN [v |-> a.out % n, rng |-> a.rng]

\* a uniform float in [0, 1), as a level in 0 .. RandRes-1
rand1f(rng) ==
  LET a == advance_rng(rng) IN [v |-> (a.out * RandRes) \div RngMod, rng |-> a.rng]

\* two floats, drawn one after the other
rand2f(rng) ==
  LET a == rand1f(rng)
      b == rand1f(a.rng)
  IN  [v |-> <<a.v, b.v>>, rng |-> b.rng]

-----------------------------------------------------------------------------
(* The scene and the services of the library consumed by the renderer *)

invalidid == -1

ShaderTypes == {"raytrace", "matte", "eyelight", "normal", "texcoord", "color"}

MaterialTypes ==
  {"matte", "glossy", "reflective", "transparent", "refractive", "volumetric"}

Material(type, emission, color, opacity, roughness) ==
  [type |-> type, emission |-> emission, emission_tex |-> invalidid,
   color |-> color, color_tex |-> invalidid, opacity |-> opacity,
   roughness |-> roughness]

\* An environment light and nothing else; a wide camera.
SceneSky ==
  [cameras      |-> << [aspect |-> <<2, 1>>] >>,
   environments |-> << [emission |-> 1, emission_tex |-> 0],
                       [emission |-> 2, emission_tex |-> invalidid] >>,
   instances    |-> << >>,
   materials    |-> << >>,
   geom         |-> "none"]

\* One emissive matte quad covering half of the image, no environment.
SceneQuad ==
  [cameras      |-> << [aspect |-> <<1, 1>>] >>,
   environments |-> << >>,
   instances    |-> << [material |-> 1] >>,
   materials    |-> << Material("matte", 2, 1, RandRes, 1) >>,
   geom         |-> "quad"]

\* A box seen through a half-transparent glossy pane, lit by an environment;
\* a tall camera.
SceneBox ==
  [cameras      |-> << [aspect |-> <<1, 2>>] >>,
   environments |-> << [emission |-> 1, emission_tex |-> invalidid] >>,
   instances    |-> << [material |-> 1], [material |-> 2] >>,
   materials    |-> << Material("glossy", 0, 2, RandRes - 1, 1),
                       Material("reflective", 1, 1, RandRes, 0) >>,
   geom         |-> "box"]

\* A strip with an emission that is not finite, over the lower half of the
\* image; a wide camera, whose rays hit or miss the strip with the jitter of
\* the sample.
SceneGlare ==
  [cameras      |-> << [aspect |-> <<2, 1>>] >>,
   environments |-> << >>,
   instances    |-> << [material |-> 1] >>,
   materials    |-> << Material("matte", NonFinite, 1, RandRes, 1) >>,
   geom         |-> "strip"]

Scenes == {SceneSky, SceneQuad, SceneBox, SceneGlare}

\* A ray is [o, d]: o = 0 for the camera and k for a point of instance k,
\* d = <<a, b>> its direction.
Ray(o, d) == [o |-> o, d |-> d]

\* The nearest hit of a ray: [hit, instance]
intersect_scene_bvh(scn, ray) ==
  CASE scn.geom = "quad" ->
         IF ray.o = 0 /\ 2 * ray.d[1] < Grid
         THEN [hit |-> TRUE, instance |-> 1]
         ELSE [hit |-> FALSE, instance |-> 0]
    [] scn.geom = "strip" ->
         IF ray.o = 0 /\ 2 * ray.d[2] < Grid
         THEN [hit |-> TRUE, instance |-> 1]
         ELSE [hit |-> FALSE, instance |-> 0]
    [] scn.geom = "box" ->
         IF ray.o = 0 THEN [hit |-> TRUE, instance |-> 1]
         ELSE IF ray.d[1] = 0 THEN [hit |-> FALSE, instance |-> 0]
         ELSE [hit |-> TRUE, instance |-> (ray.o % Len(scn.instances)) + 1]
    [] OTHER -> [hit |-> FALSE, instance |-> 0]

\* xyz and w of a texture lookup; a missing texture is white and opaque
eval_texture(scn, tex, uv) ==
  IF tex = invalidid THEN [xyz |-> 1, w |-> 1]
  ELSE [xyz |-> 1 + ((uv[1] + tex) % 2), w |-> 1]

\* the cosine of the angle between a normal and the direction back along d
cosine(n, d) == IF (n[1] + d[1]) % 2 = 0 THEN 1 ELSE 0

\* the geometric normal of an instance
eval_normal(scn, instance) == <<instance % 2, 0>>

\* the texture coordinates of the hit point of a ray
eval_texcoord(scn, ray) == ray.d

sample_hemisphere_cos(normal, ruv) == ruv

sample_hemisphere_cospower(exponent, normal, ruv) ==
  <<(normal[1] + ruv[1]) % Grid, ruv[2]>>

\* reflect and refract take the ray direction d = -outgoing
reflect(d, n) == <<(Grid - 1 - d[1] + n[1]) % Grid, d[2]>>

refract(d, n) == <<d[1], (d[2] + n[1] + 1) % Grid>>

\* Schlick's approximation as a colour weight: specular head on, 1 at grazing
fresnel_schlick(specular, n, d) == IF cosine(n, d) = 1 THEN specular ELSE 1

\* mean(fresnel_schlick({0.04, 0.04, 0.04}, n, outgoing)) in rand1f levels
fresnel_schlick_mean(n, d) == IF cosine(n, d) = 1 THEN 0 ELSE RandRes

\* fresnel_dielectric(eta, n, outgoing) in rand1f levels
fresnel_dielectric(n, d) == IF cosine(n, d) = 1 THEN 0 ELSE RandRes

\* Generates a ray from a camera for image plane coordinate uv (in 1/Grid)
eval_camera(camera, uv) == Ray(0, <<Grid - 1 - uv[1], uv[2]>>)

\* Evaluate an environment map with texture
eval_environment_(scn, environment, direction) ==
  IF environment.emission_tex = invalidid THEN environment.emission
  ELSE FMul(environment.emission,
            eval_texture(scn, environment.emission_tex, direction).xyz)

RECURSIVE SumEnvironments(_, _, _)
SumEnvironments(scn, k, direction) ==
  IF k = 0 THEN 0
  ELSE FAdd(SumEnvironments(scn, k - 1, direction),
            eval_environment_(scn, scn.environments[k], direction))

-----------------------------------------------------------------------------
(* The shading variants.  A shader call yields [c, rng, depth, cut]: the   *)
(* colour, the generator after the call's draws, the depth of its chain of *)
(* nested calls, and whether the model gave up on the chain (MaxDepth).    *)

Shaded(c, rng) == [c |-> c, rng |-> rng, depth |-> 1, cut |-> FALSE]

GaveUp(rng) == [c |-> zero4f, rng |-> rng, depth |-> 1, cut |-> TRUE]

\* mnormal of shade_raytrace: the normal, or for a rough material a
\* microfacet normal drawn from rng: [n, rng]
microfacet(material, normal, rng) ==
  IF material.roughness = 0 THEN [n |-> normal, rng |-> rng]
  ELSE [n   |-> sample_hemisphere_cospower(material.roughness, normal, rand2f(rng).v),
        rng |-> rand2f(rng).rng]

NextRay(d, weight, rng) == [recurse |-> TRUE, d |-> d, weight |-> weight, rng |-> rng]

\* the branches that draw rand1f against a Fresnel term: rf is that draw
\* and p the term
sample_fresnel(material, color, normal, d, m, rf, p) ==
  IF rf.v < p THEN NextRay(reflect(d, m.n), 1, rf.rng)
  ELSE CASE material.type = "transparent" -> NextRay(d, color, rf.rng)
         [] material.type = "glossy" ->
              NextRay(sample_hemisphere_cos(normal, rand2f(rf.rng).v), color,
                   rand2f(rf.rng).rng)
         [] material.type = "refractive" -> NextRay(refract(d, normal), color, rf.rng)

\* The switch of shade_raytrace on material.type, for a ray of direction d:
\* the next ray's direction, its weight and the generator after the draws
sample_material(material, color, normal, d, rng) ==
  CASE material.type \in {"matte", "volumetric"} ->
         NextRay(sample_hemisphere_cos(normal, rand2f(rng).v), color, rand2f(rng).rng)
    [] material.type = "reflective" ->
         NextRay(reflect(d, microfacet(material, normal, rng).n),
              fresnel_schlick(color, microfacet(material, normal, rng).n, d),
              microfacet(material, normal, rng).rng)
    [] material.type \in {"transparent", "glossy"} ->
         sample_fresnel(material, color, normal, d,
                        microfacet(material, normal, rng),
                        rand1f(microfacet(material, normal, rng).rng),
                        fresnel_schlick_mean(microfacet(material, normal, rng).n, d))
    [] material.type = "refractive" ->
         sample_fresnel(material, color, normal, d,
                        microfacet(material, normal, rng),
                        rand1f(microfacet(material, normal, rng).rng),
                        fresnel_dielectric(microfacet(material, normal, rng).n, d))
    [] OTHER -> [recurse |-> FALSE, d |-> d, weight |-> 0, rng |-> rng]

hit_material(scn, intersection) ==
  scn.materials[scn.instances[intersection.instance].material]

material_emission(scn, material, texcoord) ==
  FMul(material.emission, eval_texture(scn, material.emission_tex, texcoord).xyz)

material_color(scn, material, texcoord) ==
  FMul(material.color, eval_texture(scn, material.color_tex, texcoord).xyz)

material_opacity(scn, material, texcoord) ==
  material.opacity * eval_texture(scn, material.color_tex, texcoord).w

\* the radiance of a miss: the sum over scene.environments, alpha 1
shade_miss(scn, ray, rng) ==
  Shaded(Vec4(SumEnvironments(scn, Len(scn.environments), ray.d), 1), rng)

\* return <the nested call>
PassThrough(sub) == [sub EXCEPT !.depth = @ + 1]

\* radiance = emission + weight * xyz(<the nested call>), alpha 1
Gather(emission, weight, sub) ==
  [c     |-> Vec4(FAdd(emission, FMul(weight, sub.c.x)), 1),
   rng   |-> sub.rng,
   depth |-> sub.depth + 1,
   cut   |-> sub.cut]

\* Raytrace renderer.
RECURSIVE shade_raytrace(_, _, _, _, _, _)
RECURSIVE shade_raytrace_hit(_, _, _, _, _, _, _, _)
RECURSIVE shade_raytrace_next(_, _, _, _, _, _, _)
shade_raytrace(scn, ray, bounce, rng, prm, fuel) ==
  IF fuel = 0 THEN GaveUp(rng)
  ELSE IF ~intersect_scene_bvh(scn, ray).hit THEN shade_miss(scn, ray, rng)
  ELSE shade_raytrace_hit(scn, ray, bounce, prm, fuel,
                          intersect_scene_bvh(scn, ray).instance,
                          hit_material(scn, intersect_scene_bvh(scn, ray)),
                          rand1f(rng))

\* at a hit of instance `inst`; ro is the draw rand1f(rng) of the opacity test
shade_raytrace_hit(scn, ray, bounce, prm, fuel, inst, material, ro) ==
  IF ro.v < RandRes - material_opacity(scn, material, eval_texcoord(scn, ray))
  THEN PassThrough(shade_raytrace(scn, Ray(inst, ray.d), bounce + 1, ro.rng,
                                  prm, fuel - 1))
  ELSE IF bounce > prm.bounces
  THEN Shaded(Vec4(material_emission(scn, material, eval_texcoord(scn, ray)), 1),
              ro.rng)
  ELSE shade_raytrace_next(scn, bounce, prm, fuel, inst,
         material_emission(scn, material, eval_texcoord(scn, ray)),
         sample_material(material,
                         material_color(scn, material, eval_texcoord(scn, ray)),
                         eval_normal(scn, inst), ray.d, ro.rng))

\* after the switch on material.type
shade_raytrace_next(scn, bounce, prm, fuel, inst, emission, next) ==
  IF ~next.recurse THEN Shaded(Vec4(emission, 1), next.rng)
  ELSE Gather(emission, next.weight,
              shade_raytrace(scn, Ray(inst, next.d), bounce + 1, next.rng,
                             prm, fuel - 1))

\* Matte renderer.
RECURSIVE shade_matte(_, _, _, _, _, _)
RECURSIVE shade_matte_hit(_, _, _, _, _, _, _, _)
shade_matte(scn, ray, bounce, rng, prm, fuel) ==
  IF fuel = 0 THEN GaveUp(rng)
  ELSE IF ~intersect_scene_bvh(scn, ray).hit THEN shade_miss(scn, ray, rng)
  ELSE shade_matte_hit(scn, ray, bounce, rng, prm, fuel,
                       intersect_scene_bvh(scn, ray).instance,
                       hit_material(scn, intersect_scene_bvh(scn, ray)))

shade_matte_hit(scn, ray, bounce, rng, prm, fuel, inst, material) ==
  IF bounce > prm.bounces
  THEN Shaded(Vec4(material_emission(scn, material, eval_texcoord(scn, ray)), 1), rng)
  ELSE Gather(material_emission(scn, material, eval_texcoord(scn, ray)),
              material_color(scn, material, eval_texcoord(scn, ray)),
              shade_matte(scn,
                          Ray(inst, sample_hemisphere_cos(eval_normal(scn, inst),
                                                          rand2f(rng).v)),
                          bounce + 1, rand2f(rng).rng, prm, fuel - 1))

\* Eyelight for quick previewing.
shade_eyelight(scn, ray, bounce, rng, prm, fuel) ==
  LET intersection == intersect_scene_bvh(scn, ray) IN
  IF ~intersection.hit THEN Shaded(zero4f, rng)
  ELSE
    LET instance == scn.instances[intersection.instance]
        material == scn.materials[instance.material]
        normal   == eval_normal(scn, intersection.instance)
    IN  Shaded(Vec4(FMul(material.color, cosine(normal, ray.d)), 1), rng)

shade_normal(scn, ray, bounce, rng, prm, fuel) ==
  LET intersection == intersect_scene_bvh(scn, ray) IN
  IF ~intersection.hit THEN Shaded(zero4f, rng)
  ELSE
    LET normal == eval_normal(scn, intersection.instance)
    IN  Shaded(Vec4(normal[1] + 1, 1), rng)

shade_texcoord(scn, ray, bounce, rng, prm, fuel) == Shaded(zero4f, rng)

shade_color(scn, ray, bounce, rng, prm, fuel) ==
  LET intersection == intersect_scene_bvh(scn, ray) IN
  IF ~intersection.hit THEN Shaded(zero4f, rng)
  ELSE
    LET instance == scn.instances[intersection.instance]
        material == scn.materials[instance.material]
    IN  Shaded(Vec4(material.color, 1), rng)

\* get_shader with a default that falls back to shade_color
get_shader_fallback(prm) ==
  CASE prm.shader = "raytrace" -> "shade_raytrace"
    [] prm.shader = "matte"    -> "shade_matte"
    [] prm.shader = "eyelight" -> "shade_eyelight"
    [] prm.shader = "normal"   -> "shade_normal"
    [] prm.shader = "texcoord" -> "shade_texcoord"
    [] OTHER                   -> "shade_color"

\* Trace a single ray from the camera using the given algorithm:
\* the function get_shader returns, or "throw" for its runtime_error.
get_shader(prm) ==
  CASE prm.shader = "raytrace" -> "shade_raytrace"
    [] prm.shader = "matte"    -> "shade_matte"
    [] prm.shader = "eyelight" -> "shade_eyelight"
    [] prm.shader = "normal"   -> "shade_normal"
    [] prm.shader = "texcoord" -> "shade_texcoord"
    [] prm.shader = "color"    -> "shade_color"
    [] OTHER                   -> "throw"

\* A call through the pointer get_shader returned
call_shader(shader, scn, ray, bounce, rng, prm) ==
  CASE shader = "shade_raytrace" -> shade_raytrace(scn, ray, bounce, rng, prm, MaxDepth)
    [] shader = "shade_matte"    -> shade_matte(scn, ray, bounce, rng, prm, MaxDepth)
    [] shader = "shade_eyelight" -> shade_eyelight(scn, ray, bounce, rng, prm, MaxDepth)
    [] shader = "shade_normal"   -> shade_normal(scn, ray, bounce, rng, prm, MaxDepth)
    [] shader = "shade_texcoord" -> shade_texcoord(scn, ray, bounce, rng, prm, MaxDepth)
    [] shader = "shade_color"    -> shade_color(scn, ray, bounce, rng, prm, MaxDepth)

-----------------------------------------------------------------------------
(* The render state *)

\* (int)round(a / b) for positive a, b
round_div(a, b) == (2 * a + b) \div (2 * b)

\* the seed generator of make_raytrace_state after k draws
RECURSIVE seed_rng(_)
seed_rng(k) ==
  IF k = 0 THEN make_rng(1301081 % RngMod, 1)
  ELSE rand1i(seed_rng(k - 1), RngMod \div 2).rng

\* the generator of pixel idx: seeded by draw number idx of the seed generator
pixel_rng(idx) ==
  make_rng(961748941 % RngMod, (rand1i(seed_rng(idx), RngMod \div 2).v \div 2) + 1)

Pixels(st) == 0 .. (st.width * st.height - 1)

\* a make_raytrace_state that sizes hits by the width alone
raytrace_state_for_short_hits(camera, prm) ==
  LET num    == camera.aspect[1]
      den    == camera.aspect[2]
      width  == IF num >= den THEN prm.resolution
                ELSE round_div(prm.resolution * num, den)
      height == IF num >= den THEN round_div(prm.resolution * den, num)
                ELSE prm.resolution
      all    == 0 .. (width * height - 1)
  IN  [width    |-> width,
       height   |-> height,
       samples  |-> 0,
       image    |-> [idx \in all |-> zero4f],
       hits     |-> [idx \in 0 .. (width - 1) |-> 0],
       rngs     |-> [idx \in all |-> pixel_rng(idx)],
       contribs |-> [idx \in all |-> 0]]

\* make_raytrace_state once it has read its camera.  contribs[idx] counts
\* the additions made to image[idx] (history).
raytrace_state_for(camera, prm) ==
  LET num    == camera.aspect[1]
      den    == camera.aspect[2]
      width  == IF num >= den THEN prm.resolution
                ELSE round_div(prm.resolution * num, den)
      height == IF num >= den THEN round_div(prm.resolution * den, num)
                ELSE prm.resolution
      all    == 0 .. (width * height - 1)
  IN  [width    |-> width,
       height   |-> height,
       samples  |-> 0,
       image    |-> [idx \in all |-> zero4f],
       hits     |-> [idx \in all |-> 0],
       rngs     |-> [idx \in all |-> pixel_rng(idx)],
       contribs |-> [idx \in all |-> 0]]

\* Init a sequence of random number generators.
make_raytrace_state(scn, prm) ==
  raytrace_state_for(scn.cameras[prm.camera + 1], prm)

\* params.camera is an index of scene.cameras
camera_valid(scn, prm) == prm.camera \in 0 .. (Len(scn.cameras) - 1)

\* what scene.cameras[params.camera] may read past the end of the vector
StrayCameras == {[aspect |-> <<1, 1>>], [aspect |-> <<2, 1>>]}

\* the cameras scene.cameras[idx] may yield
camera_at(scn, idx) ==
  IF idx \in 0 .. (Len(scn.cameras) - 1) THEN {scn.cameras[idx + 1]}
  ELSE StrayCameras

\* raytrace_state{}
empty_raytrace_state ==
  [width    |-> 0,
   height   |-> 0,
   samples  |-> 0,
   image    |-> [idx \in {} |-> zero4f],
   hits     |-> [idx \in {} |-> 0],
   rngs     |-> [idx \in {} |-> pixel_rng(0)],
   contribs |-> [idx \in {} |-> 0]]

-----------------------------------------------------------------------------
(* Images.  A float of a color_image is kept in units of 1/Unit, so that a *)
(* sum of samples times 1/samples is exact for the sample counts reached.  *)

Unit == 2 * 3

\* a * scale, for scale = 1.0f / (float)n
FScale(a, n) == IF a = NonFinite \/ n = 0 THEN NonFinite ELSE (a * Unit) \div n

make_image(width, height, linear) ==
  [width  |-> width,
   height |-> height,
   linear |-> linear,
   pixels |-> [idx \in 0 .. (width * height - 1) |-> zero4f]]

\* a check_image that compares the sizes only
check_image_sizes_only(img, width, height, linear) ==
  IF img.width # width \/ img.height # height
  THEN "image should have the same size"
  ELSE "none"

\* Check image type: what check_image throws, or "none"
check_image(img, width, height, linear) ==
  IF img.width # width \/ img.height # height
  THEN "image should have the same size"
  ELSE IF img.linear # linear
  THEN (IF linear THEN "expected linear image" ELSE "expected srgb image")
  ELSE "none"

\* Get resulting render, into the caller's image: [threw, image]
get_image(img, st) ==
  IF check_image(img, st.width, st.height, TRUE) # "none"
  THEN [threw |-> check_image(img, st.width, st.height, TRUE), image |-> img]
  ELSE [threw |-> "none",
        image |-> [img EXCEPT !.pixels =
                     [idx \in Pixels(st) |->
                        Vec4(FScale(st.image[idx].x, st.samples),
                             FScale(st.image[idx].w, st.samples))]]]

\* Get resulting render, as a new image
get_image_value(st) == get_image(make_image(st.width, st.height, TRUE), st).image

-----------------------------------------------------------------------------
(* The sampling driver *)

\* the image-plane coordinate ((i + ru) / width, (j + rv) / height) in 1/Grid
pixel_uv(st, i, j, ru, rv) ==
  << ((i * RandRes + ru) * Grid) \div (st.width * RandRes),
     ((j * RandRes + rv) * Grid) \div (st.height * RandRes) >>

\* samples_pixel drawing from one generator shared by all pixels
samples_pixel_shared_rng(st, scn, prm, shader, bounce, i, j) ==
  LET index  == j * st.width + i
      camera == scn.cameras[prm.camera + 1]
      ru     == rand1f(st.rngs[0])
      rv     == rand1f(ru.rng)
      ray    == eval_camera(camera, pixel_uv(st, i, j, ru.v, rv.v))
      res    == call_shader(shader, scn, ray, bounce, rv.rng, prm)
  IN  [st EXCEPT !.rngs[0]         = res.rng,
                 !.image[index]    = VAdd(@, res.c),
                 !.hits[index]     = @ + (IF res.c.w > 0 THEN 1 ELSE 0),
                 !.contribs[index] = @ + 1]

\* The body of the loops of raytrace_samples for pixel (i, j): `shader` is
\* called at bounce depth `bounce`.
samples_pixel(st, scn, prm, shader, bounce, i, j) ==
  LET index  == j * st.width + i
      camera == scn.cameras[prm.camera + 1]
      ru     == rand1f(st.rngs[index])
      rv     == rand1f(ru.rng)
      ray    == eval_camera(camera, pixel_uv(st, i, j, ru.v, rv.v))
      res    == call_shader(shader, scn, ray, bounce, rv.rng, prm)
  IN  [st EXCEPT !.rngs[index]     = res.rng,
                 !.image[index]    = VAdd(@, res.c),
                 !.hits[index]     = @ + (IF res.c.w > 0 THEN 1 ELSE 0),
                 !.contribs[index] = @ + 1]

\* The sequential branch: for j in range(height), for i in range(width),
\* the shader get_shader selected, at bounce 0.
RECURSIVE pass_sequential(_, _, _, _)
pass_sequential(st, scn, prm, n) ==
  IF n = 0 THEN st
  ELSE samples_pixel(pass_sequential(st, scn, prm, n - 1), scn, prm,
                     get_shader(prm), 0,
                     (n - 1) % st.width, (n - 1) \div st.width)

\* The parallel branch: parallel_for runs the lambda once for every pixel,
\* in the order the workers get to them; the lambda calls shade_color at
\* bounce params.bounces.
RECURSIVE pass_parallel(_, _, _, _, _)
pass_parallel(st, scn, prm, order, n) ==
  IF n = 0 THEN st
  ELSE samples_pixel(pass_parallel(st, scn, prm, order, n - 1), scn, prm,
                     "shade_color", prm.bounces,
                     order[n] % st.width, order[n] \div st.width)

\* the orders in which parallel_for may run the pixels of a state
Orders(st) ==
  LET n == st.width * st.height
  IN  {o \in [1 .. n -> Pixels(st)] : \A a, b \in 1 .. n : o[a] = o[b] => a = b}

\* the row-major order of the nested loops
RowMajor(st) == [k \in 1 .. (st.width * st.height) |-> k - 1]

\* the orders a call of raytrace_samples may take the pixels in
SchedulesOf(st, prm) == IF prm.noparallel THEN {RowMajor(st)} ELSE Orders(st)

\* raytrace_samples without its last statement, state.samples += 1
raytrace_samples_uncounted(st, scn, prm, order) ==
  LET n == st.width * st.height IN
  IF get_shader(prm) = "throw" THEN [threw |-> TRUE, state |-> st]
  ELSE [threw |-> FALSE,
        state |-> IF prm.noparallel
                  THEN pass_sequential(st, scn, prm, n)
                  ELSE pass_parallel(st, scn, prm, order, n)]

\* Progressively compute an image by calling trace_samples multiple times:
\* [threw, state]
raytrace_samples(st, scn, prm, order) ==
  LET n == st.width * st.height IN
  IF get_shader(prm) = "throw" THEN [threw |-> TRUE, state |-> st]
  ELSE [threw |-> FALSE,
        state |-> [(IF prm.noparallel
                    THEN pass_sequential(st, scn, prm, n)
                    ELSE pass_parallel(st, scn, prm, order, n))
                   EXCEPT !.samples = @ + 1]]

-----------------------------------------------------------------------------
(* The preview *)

\* raytrace_params::pratio
pratio == 2

clamp(a, lo, hi) ==
  IF (IF a > lo THEN a ELSE lo) < hi THEN (IF a > lo THEN a ELSE lo) ELSE hi

\* a raytrace_preview that renders through the caller's params
preview_caller_params_aliased(prm) ==
  [prm EXCEPT !.resolution = @ \div pratio, !.samples = 1]

\* the caller's params after raytrace_preview: auto pparams = params is a copy
preview_caller_params(prm) == prm

\* pparams of raytrace_preview
preview_params(prm) == [prm EXCEPT !.resolution = @ \div pratio, !.samples = 1]

\* the index of the preview pixel raytrace_preview reads for pixel idx
preview_source(img, preview, idx) ==
  clamp((idx \div img.width) \div pratio, 0, preview.height - 1) * preview.width
    + clamp((idx % img.width) \div pratio, 0, preview.width - 1)

\* the loop of raytrace_preview stays inside both images
preview_in_bounds(img, st, preview) ==
  \A idx \in Pixels(st) :
    /\ img.width # 0
    /\ idx \in DOMAIN img.pixels
    /\ preview_source(img, preview, idx) \in DOMAIN preview.pixels

\* the loop of raytrace_preview, inside both images
preview_upsample(img, st, preview) ==
  [img EXCEPT !.pixels =
     [idx \in DOMAIN img.pixels |->
        IF idx \in Pixels(st) THEN preview.pixels[preview_source(img, preview, idx)]
        ELSE img.pixels[idx]]]

\* raytrace_preview: [threw, defined, image], the preview pass taking its
\* pixels in `order`
raytrace_preview(img, st, scn, prm, order) ==
  LET pparams == preview_params(prm)
      pstate  == make_raytrace_state(scn, pparams)
      pass    == raytrace_samples(pstate, scn, pparams, order)
      preview == get_image_value(pass.state)
  IN  IF pass.threw THEN [threw |-> TRUE, defined |-> TRUE, image |-> img]
      ELSE IF ~preview_in_bounds(img, st, preview)
      THEN [threw |-> FALSE, defined |-> FALSE, image |-> img]
      ELSE [threw |-> FALSE, defined |-> TRUE,
            image |-> preview_upsample(img, st, preview)]

\* the floats a read outside an array may yield
StrayFloats == {0, NonFinite}

-----------------------------------------------------------------------------
(* The asynchronous context *)

\* Trace context
make_raytrace_context(prm) == [stop |-> FALSE, done |-> FALSE, worker |-> "invalid"]

NoTask == [pc |-> "none", pending |-> {}, processed |-> {}, skipped |-> {},
           threw |-> FALSE]

\* a task is between its launch and its return
TaskLive == task.pc \notin {"none", "finished"}

\* The caller keeps raytrace_start, raytrace_samples and make_raytrace_state
\* away from a state a task is working on: it has joined the last task
\* (raytrace_cancel) or has seen it done (render_update).
NoTaskInFlight == context.worker = "invalid" \/ context.done

\* the test of raytrace_start with > for >=
start_refused_late(st, prm) == st.samples > prm.samples

\* raytrace_start refuses to start
start_refused(st, prm) == st.samples >= prm.samples

\* the lambda of the task with an index that leaves out the row: idx = i
start_pixel_row_blind(st, scn, prm, shader, i, j) ==
  LET idx      == i
      camera   == scn.cameras[prm.camera + 1]
      ru       == rand1f(st.rngs[idx])
      rv       == rand1f(ru.rng)
      ray      == eval_camera(camera, pixel_uv(st, i, j, ru.v, rv.v))
      res      == call_shader(shader, scn, ray, 0, rv.rng, prm)
      radiance == IF ~isfinite(res.c) THEN zero4f ELSE res.c
  IN  [st EXCEPT !.rngs[idx]     = res.rng,
                 !.image[idx]    = VAdd(@, radiance),
                 !.hits[idx]     = @ + 1,
                 !.contribs[idx] = @ + 1]

\* The lambda of the task for pixel (i, j), the stop flag not set
start_pixel(st, scn, prm, shader, i, j) ==
  LET idx      == j * st.width + i
      camera   == scn.cameras[prm.camera + 1]
      ru       == rand1f(st.rngs[idx])
      rv       == rand1f(ru.rng)
      ray      == eval_camera(camera, pixel_uv(st, i, j, ru.v, rv.v))
      res      == call_shader(shader, scn, ray, 0, rv.rng, prm)
      radiance == IF ~isfinite(res.c) THEN zero4f ELSE res.c
  IN  [st EXCEPT !.rngs[idx]     = res.rng,
                 !.image[idx]    = VAdd(@, radiance),
                 !.hits[idx]     = @ + 1,
                 !.contribs[idx] = @ + 1]

\* a raytrace_cancel that also clears done
cancel_flags_clearing(ctx) == [ctx EXCEPT !.stop = TRUE, !.done = FALSE]

\* what raytrace_cancel writes to the context before it waits
cancel_flags(ctx) == [ctx EXCEPT !.stop = TRUE]

\* a raytrace_cancel that does not wait for the task
cancel_unjoined == TRUE

\* raytrace_cancel may return: worker.get() has the result of the task
cancel_joined == context.worker = "valid" => task.pc = "finished"

\* a lambda that does not look at the stop flag
pixel_stopped_never(ctx) == FALSE

\* the lambda of the task: if (context.stop) return;
pixel_stopped(ctx) == ctx.stop

\* a task that sets done without a last look at the stop flag
task_may_finish_blind(ctx) == TRUE

\* the task's last look at the stop flag: if (context.stop) return;
task_may_finish(ctx) == ~ctx.stop

-----------------------------------------------------------------------------
(* Initial states: a scene, the parameters of one render, and what run()   *)
(* constructs from them.                                                   *)

Params ==
  [camera     : {0},
   resolution : Resolutions,
   shader     : ShaderTypes \cup {"unknown"},
   samples    : 0 .. MaxSamples,
   bounces    : 0 .. MaxBounces,
   noparallel : BOOLEAN]

Init ==
  /\ scene \in Scenes
  /\ params \in Params
  \* only shade_raytrace and shade_matte read params.bounces
  /\ params.shader \notin {"raytrace", "matte"} => params.bounces = 0
  /\ state = make_raytrace_state(scene, params)
  /\ twin = make_raytrace_state(scene, params)
  /\ context = make_raytrace_context(params)
  /\ task = NoTask
  /\ caller = "idle"
  /\ error = "none"
  /\ lastOp = "init"
  /\ passStart = 0
  /\ image = make_image(state.width, state.height, TRUE)

-----------------------------------------------------------------------------
(* The calls of the caller *)

\* state = make_raytrace_state(scene, params), as in render_restart
MakeState ==
  /\ caller = "idle"
  /\ NoTaskInFlight
  /\ state.samples > 0   \* on a state no pass has touched it changes nothing
  /\ state' = make_raytrace_state(scene, params)
  /\ error' = "none"
  /\ lastOp' = "make_raytrace_state"
  /\ UNCHANGED <<scene, params, context, task, caller, passStart, twin, image>>

\* raytrace_samples(state, scene, bvh, params), while state.samples < limit
SamplesUpTo(limit) ==
  /\ caller = "idle"
  /\ NoTaskInFlight
  /\ state.samples < limit
  /\ \E order \in SchedulesOf(state, params) :
       LET r == raytrace_samples(state, scene, params, order) IN
       /\ state' = r.state
       /\ error' = IF r.threw THEN "sampler unknown" ELSE "none"
  /\ lastOp' = "raytrace_samples"
  /\ UNCHANGED <<scene, params, context, task, caller, passStart, twin, image>>

RaytraceSamples == SamplesUpTo(MaxPasses)

RepeatSamples == SamplesUpTo(MaxRepeat)

\* raytrace_start(context, state, scene, bvh, params)
RaytraceStart ==
  /\ caller = "idle"
  /\ NoTaskInFlight
  /\ IF start_refused(state, params)
     THEN UNCHANGED <<context, task, passStart>>
     ELSE /\ context' = [stop |-> FALSE, done |-> FALSE, worker |-> "valid"]
          /\ task' = [NoTask EXCEPT !.pc = "begin"]
          /\ passStart' = state.samples
  /\ error' = "none"
  /\ lastOp' = "raytrace_start"
  /\ UNCHANGED <<scene, params, state, caller, twin, image>>

\* raytrace_cancel(context): context.stop = true, then the wait for the task
RaytraceCancel ==
  /\ caller = "idle"
  /\ context' = cancel_flags(context)
  /\ caller' = "cancel"
  /\ UNCHANGED <<scene, params, state, task, error, lastOp, passStart, twin, image>>

\* raytrace_cancel returns: if (context.worker.valid()) context.worker.get(),
\* which rethrows what the task threw
CancelReturn ==
  /\ caller = "cancel"
  /\ cancel_joined
  /\ IF context.worker = "valid"
     THEN /\ context' = [context EXCEPT !.worker = "invalid"]
          /\ task' = [task EXCEPT !.pc = IF @ = "finished" THEN "none" ELSE @]
          /\ error' = IF task.threw THEN "sampler unknown" ELSE "none"
     ELSE /\ UNCHANGED <<context, task>>
          /\ error' = "none"
  /\ caller' = "idle"
  /\ lastOp' = IF context.worker = "valid" THEN "raytrace_cancel/get"
               ELSE "raytrace_cancel"
  /\ UNCHANGED <<scene, params, state, passStart, twin, image>>

-----------------------------------------------------------------------------
(* The task raytrace_start launches *)

\* if (context.stop) return; ... auto shader = get_shader(params);
TaskBegin ==
  /\ task.pc = "begin"
  /\ task' = IF context.stop THEN [task EXCEPT !.pc = "finished"]
             ELSE IF get_shader(params) = "throw"
             THEN [task EXCEPT !.pc = "finished", !.threw = TRUE]
             ELSE [task EXCEPT !.pc = "pixels", !.pending = Pixels(state)]
  /\ UNCHANGED <<scene, params, state, context, caller, error, lastOp, passStart, twin, image>>

\* one call of the lambda of parallel_for, by whichever worker gets to it
TaskPixel(idx) ==
  /\ task.pc = "pixels"
  /\ idx \in task.pending
  /\ IF pixel_stopped(context)
     THEN /\ task' = [task EXCEPT !.pending = @ \ {idx}, !.skipped = @ \cup {idx}]
          /\ UNCHANGED state
     ELSE /\ task' = [task EXCEPT !.pending = @ \ {idx}, !.processed = @ \cup {idx}]
          /\ state' = start_pixel(state, scene, params, get_shader(params),
                                  idx % state.width, idx \div state.width)
  /\ UNCHANGED <<scene, params, context, caller, error, lastOp, passStart, twin, image>>

\* parallel_for has joined its workers: state.samples += 1;
TaskCount ==
  /\ task.pc = "pixels"
  /\ task.pending = {}
  /\ state' = [state EXCEPT !.samples = @ + 1]
  /\ task' = [task EXCEPT !.pc = "check"]
  /\ UNCHANGED <<scene, params, context, caller, error, lastOp, passStart, twin, image>>

\* if (context.stop) return;
TaskCheck ==
  /\ task.pc = "check"
  /\ task' = [task EXCEPT !.pc = IF task_may_finish(context) THEN "setdone"
                                 ELSE "finished"]
  /\ UNCHANGED <<scene, params, state, context, caller, error, lastOp, passStart, twin, image>>

\* context.done = true;
TaskDone ==
  /\ task.pc = "setdone"
  /\ context' = [context EXCEPT !.done = TRUE]
  /\ task' = [task EXCEPT !.pc = "finished"]
  /\ UNCHANGED <<scene, params, state, caller, error, lastOp, passStart, twin, image>>

-----------------------------------------------------------------------------
(* The second render of the same scene and parameters *)

TwinMake ==
  /\ twin # make_raytrace_state(scene, params)
  /\ twin' = make_raytrace_state(scene, params)
  /\ UNCHANGED <<scene, params, state, context, task, caller, error, lastOp, passStart, image>>

TwinSamples ==
  /\ twin.samples < MaxRepeat
  /\ \E order \in SchedulesOf(twin, params) :
       twin' = raytrace_samples(twin, scene, params, order).state
  /\ twin' # twin
  /\ UNCHANGED <<scene, params, state, context, task, caller, error, lastOp, passStart, image>>

-----------------------------------------------------------------------------
(* Extraction and preview, by a caller with an image of its own *)

\* get_image(image, state)
GetImage ==
  /\ caller = "idle"
  /\ NoTaskInFlight
  /\ image' = get_image(image, state).image
  /\ error' = get_image(image, state).threw
  /\ lastOp' = "get_image"
  /\ UNCHANGED <<scene, params, state, context, task, caller, passStart, twin>>

\* raytrace_preview(image, context, state, scene, bvh, params); a read or a
\* write outside an image kills the program or goes on with stray floats
RaytracePreview ==
  /\ caller = "idle"
  /\ NoTaskInFlight
  /\ \E order \in SchedulesOf(make_raytrace_state(scene, preview_params(params)),
                               preview_params(params)) :
       LET r == raytrace_preview(image, state, scene, params, order) IN
       IF r.defined
       THEN /\ image' = r.image
            /\ error' = IF r.threw THEN "sampler unknown" ELSE "none"
            /\ caller' = "idle"
       ELSE \/ /\ image' = image
               /\ error' = "crash"
               /\ caller' = "crashed"
            \/ /\ \E v \in StrayFloats :
                    image' = [image EXCEPT !.pixels =
                                [idx \in DOMAIN image.pixels |-> Vec4(v, v)]]
               /\ error' = "none"
               /\ caller' = "undefined"
  /\ params' = preview_caller_params(params)
  /\ lastOp' = "raytrace_preview"
  /\ UNCHANGED <<scene, state, context, task, passStart, twin>>

\* a program that has read or written outside an array may be killed at any
\* later point
UndefinedCrash ==
  /\ caller = "undefined"
  /\ caller' = "crashed"
  /\ error' = "crash"
  /\ UNCHANGED <<scene, params, state, context, task, lastOp, passStart, twin, image>>

\* the images a caller may pass to get_image for a state
Destinations(st) ==
  {make_image(st.width, st.height, TRUE),
   make_image(st.width, st.height, FALSE),
   make_image(st.width + 1, st.height, TRUE),
   make_image(st.width, st.height + 1, TRUE)}

\* params of the callers of this section: params.camera may be no index of
\* scene.cameras
ParamsOutput ==
  [camera     : {0, 1},
   resolution : Resolutions,
   shader     : {"color", "unknown"},
   samples    : {MaxSamples},
   bounces    : {0},
   noparallel : BOOLEAN]

\* After make_raytrace_state(scene, params): with a params.camera outside
\* scene.cameras it has read a camera past the end of the vector.
InitOutput ==
  /\ scene \in {SceneSky, SceneBox}
  /\ params \in ParamsOutput
  /\ IF camera_valid(scene, params)
     THEN /\ state = make_raytrace_state(scene, params)
          /\ caller = "idle"
          /\ error = "none"
     ELSE \/ /\ \E camera \in camera_at(scene, params.camera) :
                  state = raytrace_state_for(camera, params)
             /\ caller = "undefined"
             /\ error = "none"
          \/ /\ state = empty_raytrace_state
             /\ caller = "crashed"
             /\ error = "crash"
  /\ twin = state
  /\ context = make_raytrace_context(params)
  /\ task = NoTask
  /\ lastOp = "init"
  /\ passStart = 0
  /\ image \in Destinations(state)

-----------------------------------------------------------------------------

Next ==
  \/ MakeState
  \/ RaytraceSamples
  \/ RaytraceStart
  \/ RaytraceCancel
  \/ CancelReturn
  \/ TaskBegin
  \/ \E idx \in Pixels(state) : TaskPixel(idx)
  \/ TaskCount
  \/ TaskCheck
  \/ TaskDone

Spec == Init /\ [][Next]_vars

\* Two renders of the same scene and parameters, side by side, each by
\* calls of raytrace_samples.
NextRepeat ==
  \/ MakeState
  \/ RepeatSamples
  \/ TwinMake
  \/ TwinSamples

SpecRepeat == Init /\ [][NextRepeat]_vars

\* The calls of the library by a caller that extracts and previews.
NextOutput ==
  \/ MakeState
  \/ RaytraceSamples
  \/ RaytraceStart
  \/ RaytraceCancel
  \/ CancelReturn
  \/ TaskBegin
  \/ \E idx \in Pixels(state) : TaskPixel(idx)
  \/ TaskCount
  \/ TaskCheck
  \/ TaskDone
  \/ GetImage
  \/ RaytracePreview
  \/ UndefinedCrash

SpecOutput == InitOutput /\ [][NextOutput]_vars

-----------------------------------------------------------------------------
(* The interactive driver: the callbacks of the window run one at a time   *)
(* on the thread of the window, next to the task raytrace_start launched.  *)

\* a render_update that does not look at context.done
update_ready_always(ctx) == TRUE

\* a render_update that never sees context.done
update_ready_never(ctx) == FALSE

\* render_update: if (context.done)
update_ready(ctx) == ctx.done

\* context.worker.get() has returned: the future is no longer valid
joined_context(ctx) == [ctx EXCEPT !.worker = "invalid"]

\* the task once its future has been waited for
joined_task(tk) == [tk EXCEPT !.pc = IF @ = "finished" THEN "none" ELSE @]

\* params of the interactive driver
ParamsGui ==
  [camera     : {0},
   resolution : Resolutions,
   shader     : {"color", "unknown"},
   samples    : 0 .. (MaxSamples + 1),
   bounces    : {0},
   noparallel : BOOLEAN]

\* run() before show_gui_window: state, context and image are made
InitGui ==
  /\ scene \in {SceneSky, SceneBox}
  /\ params \in ParamsGui
  /\ state = make_raytrace_state(scene, params)
  /\ twin = state
  /\ context = make_raytrace_context(params)
  /\ task = NoTask
  /\ caller = "idle"
  /\ error = "none"
  /\ lastOp = "init"
  /\ passStart = 0
  /\ image = make_image(state.width, state.height, TRUE)

\* raytrace_start(context, state, scene, bvh, params) by a callback that
\* holds render state st, context ctx and task tk
GuiStart(st, ctx, tk) ==
  IF start_refused(st, params)
  THEN /\ context' = ctx
       /\ task' = tk
       /\ UNCHANGED passStart
  ELSE /\ context' = [stop |-> FALSE, done |-> FALSE, worker |-> "valid"]
       /\ task' = [NoTask EXCEPT !.pc = "begin"]
       /\ passStart' = st.samples

\* the callback leaves by an exception, which main() catches
GuiThrow(msg) ==
  /\ caller' = "exited"
  /\ error' = msg
  /\ context' = joined_context(context)
  /\ task' = joined_task(task)
  /\ UNCHANGED passStart

\* init callback: render_restart(), up to the wait of raytrace_cancel
GuiInit ==
  /\ caller = "idle"
  /\ lastOp = "init"
  /\ context' = cancel_flags(context)
  /\ caller' = "restart"
  /\ UNCHANGED <<scene, params, state, task, error, lastOp, passStart, twin, image>>

\* uiupdate callback, the camera edited: render_cancel(), up to its wait
GuiUiupdate ==
  /\ caller = "idle"
  /\ lastOp # "init"
  /\ context' = cancel_flags(context)
  /\ caller' = "uiupdate"
  /\ UNCHANGED <<scene, params, state, task, error, lastOp, passStart, twin, image>>

\* uiupdate callback: render_cancel() returns, the camera is written (its
\* frame and focus, which leave the aspect as it was), and render_restart()
\* calls raytrace_cancel again
GuiUiupdateJoin ==
  /\ caller = "uiupdate"
  /\ cancel_joined
  /\ IF context.worker = "valid" /\ task.threw
     THEN /\ GuiThrow("sampler unknown")
          /\ UNCHANGED lastOp
     ELSE /\ context' = cancel_flags(joined_context(context))
          /\ task' = joined_task(task)
          /\ caller' = "restart"
          /\ lastOp' = "render_cancel"
          /\ UNCHANGED <<error, passStart>>
  /\ UNCHANGED <<scene, params, state, twin, image>>

\* the image render_restart previews into
restart_image(img, st) ==
  IF img.width # st.width \/ img.height # st.height
  THEN make_image(st.width, st.height, TRUE) ELSE img

\* the outcomes of raytrace_preview(image, context, state, ...) in
\* render_restart, for the new state st
restart_previews(img, st) ==
  {raytrace_preview(restart_image(img, st), st, scene, params, order) :
     order \in SchedulesOf(make_raytrace_state(scene, preview_params(params)),
                           preview_params(params))}

\* render_restart() stops at a read outside the preview
GuiRestartCrash(r) ==
  /\ image' = r.image
  /\ caller' = "crashed"
  /\ error' = "crash"
  /\ context' = joined_context(context)
  /\ task' = joined_task(task)
  /\ UNCHANGED passStart

\* render_restart() goes on to raytrace_start with image img
GuiRestartGoesOn(st, img) ==
  /\ image' = img
  /\ caller' = "idle"
  /\ error' = "none"
  /\ GuiStart(st, joined_context(context), joined_task(task))

\* render_restart(): raytrace_cancel returns, worker.get() having handed
\* over what the task threw
GuiRestartJoin ==
  /\ caller = "restart"
  /\ cancel_joined
  /\ IF context.worker = "valid" /\ task.threw
     THEN GuiThrow("sampler unknown")
     ELSE /\ context' = joined_context(context)
          /\ task' = joined_task(task)
          /\ caller' = "restarting"
          /\ UNCHANGED <<error, passStart>>
  /\ UNCHANGED <<scene, params, state, lastOp, twin, image>>

\* render_restart() after raytrace_cancel: a new state, the preview, and
\* raytrace_start
GuiRestart ==
  /\ caller = "restarting"
  /\ lastOp' = "render_restart"
  /\ UNCHANGED <<scene, params, twin>>
  /\ \E st \in {make_raytrace_state(scene, params)} :
       /\ state' = st
       /\ \E r \in restart_previews(image, st) :
            IF r.threw
            THEN /\ GuiThrow("sampler unknown")
                 /\ image' = r.image
            ELSE IF r.defined
            THEN GuiRestartGoesOn(st, r.image)
            ELSE \/ GuiRestartCrash(r)
                 \/ \E v \in StrayFloats :
                      GuiRestartGoesOn(st,
                        [r.image EXCEPT !.pixels =
                           [idx \in DOMAIN r.image.pixels |-> Vec4(v, v)]])

\* draw callback: render_update()
GuiDraw ==
  /\ caller = "idle"
  /\ lastOp # "init"
  /\ IF update_ready(context)
     THEN /\ image' = get_image(image, state).image
          /\ lastOp' = "render_update"
          /\ IF get_image(image, state).threw # "none"
             THEN GuiThrow(get_image(image, state).threw)
             ELSE /\ GuiStart(state, context, task)
                  /\ UNCHANGED <<caller, error>>
     ELSE UNCHANGED <<image, lastOp, context, task, passStart, caller, error>>
  /\ UNCHANGED <<scene, params, state, twin>>

\* the window is closed: render_cancel(), up to its wait
GuiExit ==
  /\ caller = "idle"
  /\ lastOp # "init"
  /\ context' = cancel_flags(context)
  /\ caller' = "exit"
  /\ UNCHANGED <<scene, params, state, task, error, lastOp, passStart, twin, image>>

\* render_cancel() returns and run() ends
GuiExitJoin ==
  /\ caller = "exit"
  /\ cancel_joined
  /\ context' = joined_context(context)
  /\ task' = joined_task(task)
  /\ caller' = "exited"
  /\ error' = IF context.worker = "valid" /\ task.threw THEN "sampler unknown"
              ELSE "none"
  /\ lastOp' = "render_cancel"
  /\ UNCHANGED <<scene, params, state, passStart, twin, image>>

\* the task of the driver
GuiTask ==
  \/ TaskBegin
  \/ \E idx \in Pixels(state) : TaskPixel(idx)
  \/ TaskCount
  \/ TaskCheck
  \/ TaskDone

NextGui ==
  \/ GuiInit
  \/ GuiUiupdate
  \/ GuiUiupdateJoin
  \/ GuiRestartJoin
  \/ GuiRestart
  \/ GuiDraw
  \/ GuiExit
  \/ GuiExitJoin
  \/ TaskBegin
  \/ \E idx \in Pixels(state) : TaskPixel(idx)
  \/ TaskCount
  \/ TaskCheck
  \/ TaskDone

\* The interactive driver under every interleaving of its callbacks with the
\* task.
SpecGui == InitGui /\ [][NextGui]_vars

\* The driver left alone: the init callback, then draw callbacks only.
NextGuiPoll ==
  \/ GuiInit
  \/ GuiRestartJoin
  \/ GuiRestart
  \/ GuiDraw
  \/ TaskBegin
  \/ \E idx \in Pixels(state) : TaskPixel(idx)
  \/ TaskCount
  \/ TaskCheck
  \/ TaskDone

\* The thread of the task gets to run, and the window keeps calling its
\* draw callback.
SpecGuiPoll ==
  /\ InitGui
  /\ [][NextGuiPoll]_vars
  /\ WF_vars(GuiTask)
  /\ WF_vars(GuiDraw)

\* The interactive driver with a thread of the task that gets to run and
\* futures that hand over a finished task's result.
SpecGuiFair ==
  /\ InitGui
  /\ [][NextGui]_vars
  /\ WF_vars(GuiTask)
  /\ WF_vars(GuiRestartJoin)
  /\ WF_vars(GuiUiupdateJoin)
  /\ WF_vars(GuiExitJoin)

-----------------------------------------------------------------------------
(* The command-line driver: params.samples passes, then the image is saved *)

\* for (auto sample : range(0, params.samples)) raytrace_samples(...); an
\* exception ends run() and is caught in main()
CliSample ==
  /\ caller = "idle"
  /\ state.samples < params.samples
  /\ \E r \in {raytrace_samples(state, scene, params, order) :
                 order \in SchedulesOf(state, params)} :
       /\ state' = r.state
       /\ error' = IF r.threw THEN "sampler unknown" ELSE "none"
       /\ caller' = IF r.threw THEN "exited" ELSE "idle"
  /\ lastOp' = "raytrace_samples"
  /\ UNCHANGED <<scene, params, context, task, passStart, twin, image>>

\* auto image = get_image(state); save_image(outname, image);
CliSave ==
  /\ caller = "idle"
  /\ state.samples >= params.samples
  /\ image' = get_image_value(state)
  /\ caller' = "exited"
  /\ lastOp' = "get_image"
  /\ UNCHANGED <<scene, params, state, context, task, error, passStart, twin>>

NextCli ==
  \/ CliSample
  \/ CliSave

\* The command-line driver.
SpecCli == Init /\ [][NextCli]_vars

-----------------------------------------------------------------------------
(* Properties *)

\* no camera ray of the scenes is given up on (MaxDepth): the shaders are
\* followed to their end
NoRayCut ==
  \A idx \in Pixels(state) :
    \A sh \in ShaderTypes :
      ~call_shader(get_shader([params EXCEPT !.shader = sh]), scene,
                   eval_camera(scene.cameras[1],
                               pixel_uv(state, idx % state.width, idx \div state.width,
                                        rand1f(state.rngs[idx]).v,
                                        rand1f(rand1f(state.rngs[idx]).rng).v)),
                   0, rand1f(rand1f(state.rngs[idx]).rng).rng, params).cut

JoinedCancel == lastOp = "raytrace_cancel/get"

PlainCancel == lastOp = "raytrace_cancel"

\* C1: from the same scene, params and render state, a sequential pass
\* (noparallel = true) and a pixel-parallel pass (noparallel = false), in
\* whatever order its workers take the pixels, leave the same image, hits,
\* rngs and samples.
C1_SequentialEqualsParallel ==
  \A order \in Orders(state) :
    raytrace_samples(state, scene, [params EXCEPT !.noparallel = TRUE],
                     RowMajor(state)).state
      = raytrace_samples(state, scene, [params EXCEPT !.noparallel = FALSE],
                         order).state

\* C2: every completed call of raytrace_samples adds one to state.samples and
\* one contribution to every pixel, whatever state.samples was; after k calls
\* from a fresh state, samples = k and every pixel holds k contributions.
C2_PassStep ==
  /\ (RepeatSamples /\ error' = "none") =>
       /\ state'.samples = state.samples + 1
       /\ \A idx \in Pixels(state) : state'.contribs[idx] = state.contribs[idx] + 1
  /\ TwinSamples =>
       /\ twin'.samples = twin.samples + 1
       /\ \A idx \in Pixels(twin) : twin'.contribs[idx] = twin.contribs[idx] + 1

C2_PassCount ==
  /\ \A idx \in Pixels(state) : state.contribs[idx] = state.samples
  /\ \A idx \in Pixels(twin) : twin.contribs[idx] = twin.samples

C2_OnePassOneSample == [][C2_PassStep]_vars /\ []C2_PassCount

C2_Witness ==
  /\ lastOp = "raytrace_samples"
  /\ error = "none"
  /\ state.samples = 2
  /\ Cardinality(Pixels(state)) = 4
  /\ \A idx \in Pixels(state) : state.contribs[idx] = 2

\* C3: after raytrace_cancel has joined a task that was stopped before it
\* had processed every pixel, state.samples is what it was before the
\* raytrace_start that launched the task.
C3_CanceledPassKeepsCounter ==
  (JoinedCancel /\ task.processed # Pixels(state)) => state.samples = passStart

\* C4: whenever no task is running, every pixel holds exactly state.samples
\* contributions.
C4_NoPartialPass ==
  ~TaskLive => \A idx \in Pixels(state) : state.contribs[idx] = state.samples

\* C5: once raytrace_cancel has returned, and until the next raytrace_start,
\* no task is running: no step of the task follows the return.
C5_CancelJoins ==
  (JoinedCancel \/ PlainCancel \/ context.worker = "invalid") => ~TaskLive

C5_Witness ==
  /\ JoinedCancel
  /\ task.skipped # {}
  /\ task.processed # {}

\* C6: raytrace_cancel on a context with no task to join (a fresh context, or
\* after a cancel that joined) returns without waiting and leaves the render
\* state, done and the worker handle as they were; a second cancel in a row
\* changes nothing at all.
C6_CancelStep ==
  (context.worker = "invalid" /\ (RaytraceCancel \/ CancelReturn)) =>
    /\ state' = state
    /\ context'.done = context.done
    /\ context'.worker = context.worker
    /\ task' = task
    /\ context.stop => context' = context

C6_NoWait == (caller = "cancel" /\ context.worker = "invalid") => ENABLED CancelReturn

C6_IdleCancelNoOp == [][C6_CancelStep]_vars /\ []C6_NoWait

C6_Witness ==
  /\ PlainCancel
  /\ caller = "idle"
  /\ context.done
  /\ state.samples > 0

\* C7: raytrace_start with state.samples >= params.samples launches nothing
\* and leaves stop, done, the worker handle and the render state unchanged.
C7_StartStep ==
  (RaytraceStart /\ state.samples >= params.samples) =>
    /\ context' = context
    /\ task' = task
    /\ state' = state

C7_StartAtTargetNoOp == [][C7_StartStep]_vars

C7_Witness ==
  /\ lastOp = "raytrace_start"
  /\ context.worker = "invalid"
  /\ state.samples >= params.samples
  /\ state.samples > 0

\* C8: done is true only for a task that processed every pixel of its pass,
\* skipped none and counted the pass; a task that sees the stop flag returns
\* without setting done.
C8_DoneState ==
  context.done =>
    /\ task.processed = Pixels(state)
    /\ task.skipped = {}
    /\ ~task.threw

C8_DoneStep ==
  (~context.done /\ context'.done) =>
    /\ state.samples = passStart + 1
    /\ task.pc = "setdone"

C8_SeenStop ==
  (task.pc \in {"begin", "check"} /\ context.stop /\ task'.pc # task.pc) =>
    (task'.pc = "finished" /\ ~context'.done)

C8_DoneOnlyForFullPass ==
  []C8_DoneState /\ [][C8_DoneStep /\ C8_SeenStop]_vars

C8_Witness ==
  /\ context.done
  /\ Cardinality(Pixels(state)) = 4
  /\ task.processed = Pixels(state)
  /\ state.samples = passStart + 1

\* C9: two render states made from the same scene and params have the same
\* per-pixel generators, and after the same number of passes the same image,
\* hits and generators, whatever the order in which the workers of each pass
\* took the pixels.
C9_SamePassesSameState == state.samples = twin.samples => state = twin

C9_Witness ==
  /\ ~params.noparallel
  /\ Cardinality(Pixels(state)) > 1
  /\ state.samples = 2
  /\ twin.samples = 2
  /\ state = twin
  /\ \E idx \in Pixels(state) : state.image[idx] # zero4f

\* C10: with a params.shader that is none of the six variants, raytrace_samples
\* throws and the task ends by the throw before any pixel is sampled: image,
\* hits, rngs and samples stay as make_raytrace_state left them and done stays
\* false.
C10_UnknownShaderFailsFirst ==
  params.shader \notin ShaderTypes =>
    /\ state = make_raytrace_state(scene, params)
    /\ ~context.done
    /\ task.processed = {}
    /\ task.pc \notin {"pixels", "check", "setdone"}
    /\ lastOp = "raytrace_samples" => error = "sampler unknown"
    /\ (JoinedCancel /\ task.threw) => error = "sampler unknown"

C10_Witness ==
  /\ params.shader \notin ShaderTypes
  /\ task.threw
  /\ lastOp = "raytrace_samples"
  /\ error = "sampler unknown"

\* the camera ray raytrace_samples and the task trace for pixel idx of st, and
\* the generator the shader is called with
SampleRay(st, idx) ==
  eval_camera(scene.cameras[params.camera + 1],
              pixel_uv(st, idx % st.width, idx \div st.width,
                       rand1f(st.rngs[idx]).v,
                       rand1f(rand1f(st.rngs[idx]).rng).v))

SampleRng(st, idx) == rand1f(rand1f(st.rngs[idx]).rng).rng

\* the rays a shader is called with in a scene: from the camera (o = 0) and
\* from a point of every instance
Rays(scn) ==
  {Ray(o, <<a, b>>) : o \in 0 .. Len(scn.instances),
                      a \in 0 .. (Grid - 1), b \in 0 .. (Grid - 1)}

CameraRays == {ray \in Rays(scene) : ray.o = 0}

ShaderOf(sh) == get_shader([params EXCEPT !.shader = sh])

\* C11: with a params.camera that is no index of scene.cameras, the calls
\* end with a configuration error and no render state is allocated.
C11_BadCameraReported ==
  ~camera_valid(scene, params) =>
    /\ error = "invalid camera"
    /\ state = empty_raytrace_state

\* C12: get_image into an image whose width or height differs from the
\* state's, or that is not linear, throws and leaves the image and the render
\* state as they were.
C12_Mismatch ==
  \/ image.width # state.width
  \/ image.height # state.height
  \/ ~image.linear

C12_GetImageStep ==
  (GetImage /\ C12_Mismatch) =>
    /\ error' \in {"image should have the same size", "expected linear image"}
    /\ image' = image
    /\ state' = state

C12_MismatchThrowsFirst == [][C12_GetImageStep]_vars

C12_Witness ==
  /\ lastOp = "get_image"
  /\ error = "expected linear image"
  /\ state.samples > 0
  /\ \E idx \in Pixels(state) : state.image[idx] # zero4f
  /\ \A idx \in DOMAIN image.pixels : image.pixels[idx] = zero4f

\* C13: in a scene with environments and no geometry, after one pass of
\* raytrace_samples from a fresh state every pixel holds the emission of the
\* environments along its camera ray, with noparallel true or false.
C13_EnvironmentOnly ==
  ( /\ Len(scene.instances) = 0
    /\ Len(scene.environments) > 0
    /\ lastOp = "raytrace_samples"
    /\ error = "none"
    /\ state.samples = 1 ) =>
  \A idx \in Pixels(state) :
    state.image[idx].x
      = SumEnvironments(scene, Len(scene.environments),
                        SampleRay(make_raytrace_state(scene, params), idx).d)

\* C14: with params.bounces = 0, shade_matte at bounce 0 on a camera ray that
\* hits a surface returns the emission of the surface, draws no incoming
\* direction and makes no nested call.
C14_MatteNoBounce ==
  params.bounces = 0 =>
    \A idx \in Pixels(state) : \A ray \in CameraRays :
      intersect_scene_bvh(scene, ray).hit =>
        /\ shade_matte(scene, ray, 0, state.rngs[idx], params, MaxDepth).c.x
             = material_emission(scene,
                                 hit_material(scene, intersect_scene_bvh(scene, ray)),
                                 eval_texcoord(scene, ray))
        /\ shade_matte(scene, ray, 0, state.rngs[idx], params, MaxDepth).rng
             = state.rngs[idx]
        /\ shade_matte(scene, ray, 0, state.rngs[idx], params, MaxDepth).depth = 1

\* C15: no step changes the scene or the caller's params; raytrace_preview
\* changes resolution and samples in its own copy.
C15_SceneAndParamsFixed == [][scene' = scene /\ params' = params]_vars

C15_Witness ==
  /\ lastOp = "raytrace_preview"
  /\ caller = "idle"
  /\ error = "none"
  /\ params.resolution > 1
  /\ params = preview_caller_params(params)
  /\ \E idx \in DOMAIN image.pixels : image.pixels[idx] # zero4f

\* C16: no slot of state.image ever holds a non-finite value.
C16_ImageFinite == \A idx \in Pixels(state) : isfinite(state.image[idx])

\* C17: a shader called with a ray that misses returns alpha 0 in a scene
\* without environments and alpha 1 in a scene with environments.
C17_MissAlpha ==
  \A sh \in ShaderTypes : \A ray \in Rays(scene) : \A idx \in Pixels(state) :
    ~intersect_scene_bvh(scene, ray).hit =>
      call_shader(ShaderOf(sh), scene, ray, 0, state.rngs[idx], params).c.w
        = IF Len(scene.environments) = 0 THEN 0 ELSE 1

\* C18: in a pass of raytrace_samples, sequential or parallel, and in the
\* task, the sample of a pixel is the result of the shader params.shader
\* selects, called at bounce 0 with the generator of the pixel.
C18_Selected(st, idx) ==
  call_shader(get_shader(params), scene, SampleRay(st, idx), 0,
              SampleRng(st, idx), params)

C18_SampleStep ==
  /\ (RaytraceSamples /\ error' = "none") =>
       \A idx \in Pixels(state) :
         /\ state'.rngs[idx] = C18_Selected(state, idx).rng
         /\ state'.image[idx] = VAdd(state.image[idx], C18_Selected(state, idx).c)
  /\ \A idx \in Pixels(state) :
       (TaskPixel(idx) /\ idx \in task'.processed) =>
         /\ state'.rngs[idx] = C18_Selected(state, idx).rng
         /\ isfinite(C18_Selected(state, idx).c) =>
              state'.image[idx] = VAdd(state.image[idx], C18_Selected(state, idx).c)

C18_SelectedShaderEveryMode == [][C18_SampleStep]_vars

\* C19: every shader, called with a ray that misses, returns the sum of the
\* emissions of the environments of the scene along the ray.
C19_MissIsEnvironment ==
  \A sh \in ShaderTypes : \A ray \in Rays(scene) : \A idx \in Pixels(state) :
    ~intersect_scene_bvh(scene, ray).hit =>
      call_shader(ShaderOf(sh), scene, ray, 0, state.rngs[idx], params).c.x
        = SumEnvironments(scene, Len(scene.environments), ray.d)

\* C20: the chain of nested calls of a call of shade_raytrace or shade_matte
\* at bounce 0 is at most params.bounces + 2 calls deep, opacity pass-through
\* steps included.
C20_DepthBounded ==
  \A sh \in {"raytrace", "matte"} : \A ray \in CameraRays : \A idx \in Pixels(state) :
    call_shader(ShaderOf(sh), scene, ray, 0, state.rngs[idx], params).depth
      <= params.bounces + 2

-----------------------------------------------------------------------------
(* The pixels of one pass *)

\* state st2 differs from st at most in slot idx of rngs, image and hits
OnlySlot(st, st2, idx) ==
  /\ st2.width = st.width
  /\ st2.height = st.height
  /\ st2.samples = st.samples
  /\ \A k \in Pixels(st) \ {idx} :
       /\ st2.rngs[k] = st.rngs[k]
       /\ st2.image[k] = st.image[k]
       /\ st2.hits[k] = st.hits[k]

\* the pixel coordinates of a state
Coords(st) == (0 .. (st.width - 1)) \X (0 .. (st.height - 1))

\* C21 (a): the lambda of the task for pixel idx leaves every other slot of
\* rngs, image and hits, and the counter, as they were
C21_TaskPixelStep ==
  \A idx \in Pixels(state) :
    (TaskPixel(idx) /\ ~context.stop) => OnlySlot(state, state', idx)

\* C21 (b): so does the loop body of raytrace_samples, in both branches, and
\* distinct pixels have distinct indices
C21_SamplesPixel ==
  \A p, q \in Coords(state) :
    /\ p # q => p[2] * state.width + p[1] # q[2] * state.width + q[1]
    /\ get_shader(params) # "throw" =>
         /\ OnlySlot(state, samples_pixel(state, scene, params, get_shader(params),
                                          0, p[1], p[2]),
                     p[2] * state.width + p[1])
         /\ OnlySlot(state, samples_pixel(state, scene, params, "shade_color",
                                          params.bounces, p[1], p[2]),
                     p[2] * state.width + p[1])

\* C21 (c): the task writes state.samples only when every call of the lambda
\* has returned
C21_CountStep ==
  (TaskLive /\ state'.samples # state.samples) =>
    (task.pc = "pixels" /\ task.pending = {}
     /\ task.processed \cup task.skipped = Pixels(state))

\* C21: within one pass the work for a pixel touches only its own slot of
\* rngs, image and hits, distinct pixels have distinct slots, and
\* state.samples is written only after all pixel workers have joined.
C21_PixelsDisjoint ==
  [][C21_TaskPixelStep /\ C21_CountStep]_vars /\ []C21_SamplesPixel

\* a task has run the lambda for two pixels and then counted the pass
C21_Witness ==
  /\ Cardinality(task.processed) > 1
  /\ task.pc = "check"
  /\ state.samples = passStart + 1
  /\ \A idx \in Pixels(state) : state.hits[idx] = 1

-----------------------------------------------------------------------------
(* The interactive driver *)

\* a callback of the driver launches a task in this step
GuiLaunches ==
  /\ GuiDraw \/ GuiRestart
  /\ context'.worker = "valid"
  /\ task'.pc = "begin"

\* C22: the driver reads the render state (get_image in render_update) and
\* replaces it (make_raytrace_state in render_restart) only while no task
\* is executing on it, under every interleaving of its callbacks with the
\* task; context.done is set only by a task that has nothing left to do.
C22_StateAccessedAtRest ==
  /\ [][(GuiDraw \/ GuiRestart) => ~TaskLive]_vars
  /\ [](context.done => ~TaskLive)

\* render_update has copied the state of a finished pass into the image
C22_Witness ==
  /\ lastOp = "render_update"
  /\ context.done
  /\ state.samples > 0
  /\ image = get_image(image, state).image
  /\ \E idx \in Pixels(state) : state.hits[idx] > 0

\* C23: under every sequence of callbacks at most one task is live:
\* raytrace_start launches a task only when the task before it has
\* returned, and a live task is the one context.worker holds.
C23_OneTask ==
  /\ [][GuiLaunches => ~TaskLive]_vars
  /\ [](TaskLive => context.worker = "valid")

\* render_update has launched the second task of a render, the first one
\* having finished its pass
C23_Witness ==
  /\ lastOp = "render_update"
  /\ task.pc = "begin"
  /\ passStart = 1
  /\ state.samples = 1

\* C29: in the interactive driver state.samples never exceeds
\* params.samples: a task is launched only while state.samples <
\* params.samples and a launched task adds at most one.
C29_SamplesBounded ==
  /\ [](state.samples <= params.samples)
  /\ [][GuiLaunches => state'.samples < params.samples]_vars
  /\ [](context.worker = "valid" => state.samples \in {passStart, passStart + 1})

\* the last task of a render of more than one sample has counted its pass
C29_Witness ==
  /\ params.samples > 1
  /\ state.samples = params.samples
  /\ task.pc = "finished"

\* C24 (a): a task launched and not cancelled adds one to state.samples
\* and then sets done
C24_TaskFinishes ==
  (task.pc = "begin") ~> (context.done /\ state.samples = passStart + 1)

\* C24 (b): once render_restart has returned, the polling of render_update
\* brings state.samples to params.samples, and from then on no task runs
C24_Converges ==
  (lastOp = "render_restart" /\ caller = "idle")
    ~> [](state.samples = params.samples /\ ~TaskLive)

\* C24: with a valid shader and no cancellation every launched task
\* eventually sets done, having added one to state.samples; repeated
\* render_update polling eventually brings state.samples to params.samples,
\* after which no further task is launched.
C24_RenderCompletes == C24_TaskFinishes /\ C24_Converges

\* render_update has seen the last of several passes done and has started
\* nothing more
C24_Witness ==
  /\ lastOp = "render_update"
  /\ params.samples > 1
  /\ state.samples = params.samples
  /\ context.done
  /\ ~TaskLive

\* the thread of the window is inside raytrace_cancel
InCancel == caller \in {"restart", "uiupdate", "exit"}

\* C25 (a): with stop set no call of the lambda touches the state any more
C25_SkipStep ==
  (context.stop /\ \E idx \in Pixels(state) : TaskPixel(idx)) =>
    (state' = state /\ task'.processed = task.processed)

\* C25 (b): with stop set the task returns
C25_TaskExits == (TaskLive /\ context.stop) ~> ~TaskLive

\* C25 (c): a caller inside raytrace_cancel gets out of it
C25_CallerResumes == InCancel ~> ~InCancel

\* C25: raytrace_cancel always terminates: once stop is set every pixel not
\* yet started is skipped, the task exits, and the blocked caller resumes
\* (the task's thread being scheduled), whatever point of the pass the task
\* had reached.
C25_CancelTerminates ==
  [][C25_SkipStep]_vars /\ C25_TaskExits /\ C25_CallerResumes

\* a cancel that came while pixels were pending: the task skipped some,
\* returned, and the caller has joined it
C25_Witness ==
  /\ lastOp = "render_cancel"
  /\ task.skipped # {}
  /\ task.processed # {}
  /\ task.pc = "none"
  /\ context.stop
  /\ ~InCancel

-----------------------------------------------------------------------------
(* The preview *)

\* the destination has the dimensions of the render state
Matching == image.width = state.width /\ image.height = state.height

Min(a, b) == IF a < b THEN a ELSE b

\* the images get_image(pstate) may return in raytrace_preview
PreviewImages ==
  {get_image_value(raytrace_samples(make_raytrace_state(scene, preview_params(params)),
                                    scene, preview_params(params), order).state) :
     order \in SchedulesOf(make_raytrace_state(scene, preview_params(params)),
                           preview_params(params))}

\* image img holds, for every pixel (i, j) of state st, the pixel
\* (min(i / pratio, pw - 1), min(j / pratio, ph - 1)) of preview pv
Upsampled(img, st, pv) ==
  \A idx \in Pixels(st) :
    /\ idx \in DOMAIN img.pixels
    /\ Min((idx \div st.width) \div pratio, pv.height - 1) * pv.width
         + Min((idx % st.width) \div pratio, pv.width - 1) \in DOMAIN pv.pixels
    /\ img.pixels[idx] =
         pv.pixels[Min((idx \div st.width) \div pratio, pv.height - 1) * pv.width
                     + Min((idx % st.width) \div pratio, pv.width - 1)]

C26_PreviewStep ==
  (RaytracePreview /\ Matching /\ get_shader(params) # "throw") =>
    /\ state' = state
    /\ context' = context
    /\ \E pv \in PreviewImages :
         /\ pv.width * pv.height = Cardinality(DOMAIN pv.pixels)
         /\ Upsampled(image', state, pv)

\* C26: raytrace_preview renders one sample into a fresh state of
\* resolution params.resolution / params.pratio and writes every pixel
\* (i, j) of the destination with the preview pixel
\* (min(i / pratio, pw - 1), min(j / pratio, ph - 1)); it leaves the
\* caller's render state and context unchanged.
C26_PreviewUpsamples == [][C26_PreviewStep]_vars

C27_PreviewStep ==
  (RaytracePreview /\ Matching) => caller' \notin {"undefined", "crashed"}

\* C27: for every resolution >= 1 and pratio >= 1, pratio > resolution
\* included, every index raytrace_preview reads from the preview and writes
\* to a destination of the render state's dimensions lies within bounds.
C27_PreviewInBounds == [][C27_PreviewStep]_vars

-----------------------------------------------------------------------------
(* The shape of the render state *)

\* image, hits and rngs of st have width * height elements
Sized(st) ==
  /\ DOMAIN st.image = 0 .. (st.width * st.height - 1)
  /\ DOMAIN st.hits = 0 .. (st.width * st.height - 1)
  /\ DOMAIN st.rngs = 0 .. (st.width * st.height - 1)

\* C28 (a): what make_raytrace_state returns
C28_Fresh ==
  camera_valid(scene, params) =>
    \A st \in {make_raytrace_state(scene, params)} :
      /\ st.samples = 0
      /\ Sized(st)
      /\ \A idx \in Pixels(st) : st.image[idx] = zero4f /\ st.hits[idx] = 0

\* C28 (b): no call changes the shape of the state
C28_ShapeStep ==
  /\ state'.width = state.width
  /\ state'.height = state.height
  /\ DOMAIN state'.image = DOMAIN state.image
  /\ DOMAIN state'.hits = DOMAIN state.hits
  /\ DOMAIN state'.rngs = DOMAIN state.rngs

\* C28: make_raytrace_state returns samples = 0 and image, hits and rngs of
\* length width * height, image and hits all zero; after any sequence of
\* passes, asynchronous starts and cancels, and extractions, width, height
\* and the three lengths are what they were.
C28_ShapeKept == []C28_Fresh /\ []Sized(state) /\ [][C28_ShapeStep]_vars

\* a state of more than one pixel after a pass and an extraction
C28_Witness ==
  /\ lastOp = "get_image"
  /\ error = "none"
  /\ state.samples > 0
  /\ state.width * state.height > 1
  /\ \A idx \in Pixels(state) : state.hits[idx] > 0

-----------------------------------------------------------------------------
(* Extraction by the drivers *)

\* C30: every get_image call of the command-line driver, of
\* raytrace_preview and of the interactive loop is made on a state with
\* samples >= 1, for every params.samples >= 0, so the normalisation never
\* divides by zero.
C30_ExtractionAfterSample == lastOp = "get_image" => state.samples >= 1

====
